---- MODULE Spec2Model ----
(***************************************************************************)
(* Environmental monitor (app.py): the persistence reconciler (load_data,  *)
(* save_data over a local CSV and a remote Spaces object), the outside     *)
(* conditions provider (fetch_outside_conditions under st.cache_data) and  *)
(* the evaluation engine (evaluate_records).                               *)
(*                                                                         *)
(* Readings are whole numbers (degrees C, percent RH), datetimes are whole *)
(* hours, the clock of the provider cache counts seconds.  A CSV file is   *)
(* text: its cells are strings, a DataFrame holds numbers, NaN or NaT.     *)
(***************************************************************************)
EXTENDS Integers, Sequences, FiniteSets, TLC

\* ------------------------------------------------------------------ bounds
NumSessions == 2
MaxId == 2
MaxPeriods == 2
MaxRows == 2

\* ------------------------------------------------------- program constants
TEMP_MIN == 15
TEMP_MAX == 25
TEMP_DELTA == 4
RH_CORE_MIN == 45
RH_CORE_MAX == 55
RH_OUTER_MIN == 40
RH_OUTER_MAX == 60
RH_DELTA == 5
MOULD_RISK_RH == 70
DRIFT_WINDOW_HOURS == 24
OUTSIDE_TEMP_DELTA_WARN == 6
OUTSIDE_RH_DELTA_WARN == 15
CACHE_TTL == 900
HTTP_OK == 200

LOCATIONS == {"Compactus", "Workroom"}

\* pandas' missing values: NaN of a numeric column, NaT of a datetime column
NaN == -9999
NaT == -9998

Sessions == 1..NumSessions

\* ------------------------------------------------------------ conversions
\* the numbers and hours that have a decimal text in the model
NumRange == -10..100

NumText == [n \in NumRange |-> ToString(n)]

\* the number each of those texts spells
TextNum ==
    [t \in {NumText[n] : n \in NumRange} |->
        CHOOSE n \in NumRange : NumText[n] = t]

\* pd.to_numeric(errors="coerce"): the number a cell spells, NaN otherwise
to_numeric(cell) == IF cell \in DOMAIN TextNum THEN TextNum[cell] ELSE NaN

\* pd.to_datetime(errors="coerce"): the hour a cell spells, NaT otherwise
to_datetime(cell) ==
    IF cell \in DOMAIN TextNum /\ TextNum[cell] >= 0
    THEN TextNum[cell]
    ELSE NaT

\* DataFrame.to_csv writes a missing value as an empty cell
cell_of(v) == IF v = NaN \/ v = NaT THEN "" ELSE ToString(v)

\* empty_frame(): the thirteen columns and no rows
empty_frame == << >>

\* One DataFrame row from one CSV row.  The columns that no decision of the
\* reconciler or of the engine reads (lux, uv, co2, outside_time,
\* outside_dew_point_c, notes) are left out of both.
frame_row(raw) ==
    [id |-> raw.id,
     datetime |-> to_datetime(raw.datetime),
     location |-> raw.location,
     temp_c |-> to_numeric(raw.temp_c),
     rh |-> to_numeric(raw.rh),
     outside_temp_c |-> to_numeric(raw.outside_temp_c),
     outside_rh |-> to_numeric(raw.outside_rh)]

prepare_data_frame(rows) ==
    IF rows = << >> THEN empty_frame
    ELSE [i \in DOMAIN rows |-> frame_row(rows[i])]

csv_row(r) ==
    [id |-> r.id,
     datetime |-> cell_of(r.datetime),
     location |-> r.location,
     temp_c |-> cell_of(r.temp_c),
     rh |-> cell_of(r.rh),
     outside_temp_c |-> cell_of(r.outside_temp_c),
     outside_rh |-> cell_of(r.outside_rh)]

\* ------------------------------------------------------------------ files
\* A file or object: absent, zero bytes, bytes that are no CSV, or a CSV
\* (a header line and rows; no rows is the header-only file).
AbsentFile == [kind |-> "absent", rows |-> << >>]
ZeroByteFile == [kind |-> "zero", rows |-> << >>]
CorruptFile == [kind |-> "corrupt", rows |-> << >>]
CsvFile(rows) == [kind |-> "csv", rows |-> rows]

\* df.to_csv(path, index=False)
to_csv(df) == CsvFile([i \in DOMAIN df |-> csv_row(df[i])])

\* pd.read_csv: EmptyDataError on zero bytes, another error on bytes that
\* do not parse, the rows of a CSV otherwise
read_csv(file) ==
    CASE file.kind = "zero" -> [status |-> "EmptyDataError", rows |-> << >>]
      [] file.kind = "corrupt" -> [status |-> "ParserError", rows |-> << >>]
      [] OTHER -> [status |-> "ok", rows |-> file.rows]

\* Optional[DataFrame]
NoneFrame == [some |-> FALSE, rows |-> << >>]
SomeFrame(df) == [some |-> TRUE, rows |-> df]

\* ---------------------------------------------------------- configuration
\* the fields of the configuration taken as they were typed
strip_nothing(s) == s

\* str.strip() on the texts the configurations are made of
strip(s) ==
    CASE s = " " -> ""
      [] s = " key " -> "key"
      [] OTHER -> s

DEFAULT_SPACES_OBJECT_KEY == "environmental-monitor/measurements.csv"

normalize_spaces_config(config) ==
    [bucket |-> strip(config.bucket),
     object_key |-> IF strip(config.object_key) = ""
                    THEN DEFAULT_SPACES_OBJECT_KEY
                    ELSE strip(config.object_key),
     access_key_id |-> strip(config.access_key_id),
     secret_access_key |-> strip(config.secret_access_key)]

spaces_enabled(config) ==
    LET active_config == normalize_spaces_config(config) IN
    /\ active_config.bucket # ""
    /\ active_config.object_key # ""
    /\ active_config.access_key_id # ""
    /\ active_config.secret_access_key # ""

\* a client built without the test of the configuration
spaces_client_unchecked(config, boto3) == boto3

\* spaces_client returns None without boto3 or without a full configuration
spaces_client(config, boto3) == boto3 /\ spaces_enabled(config)

\* ------------------------------------------------------------- reconciler
\* What the object store does to a get: "ok" (the object, or NoSuchKey when
\* there is none), "client_error" (a ClientError with another code),
\* "transport_error" (any other exception of get_object), "read_error" (the
\* response arrives and reading its body fails).  To a put: "ok" or
\* "transport_error", which leaves the object as it was.
GetOutcomes == {"ok", "client_error", "transport_error", "read_error"}
PutOutcomes == {"ok", "transport_error"}

Fetched(df, warnings, calls, raised) ==
    [df |-> df, warnings |-> warnings, calls |-> calls, raised |-> raised]

load_data_from_spaces(config, boto3, object, get) ==
    IF ~spaces_client(config, boto3)
    THEN Fetched(NoneFrame, << >>, << >>, FALSE)
    ELSE IF get = "client_error"
    THEN Fetched(NoneFrame, <<"spaces_load_error_code">>, <<"get">>, FALSE)
    ELSE IF get = "transport_error"
    THEN Fetched(NoneFrame, <<"spaces_load_failed">>, <<"get">>, FALSE)
    ELSE IF object.kind = "absent"
    THEN Fetched(NoneFrame, << >>, <<"get">>, FALSE)
    ELSE IF get = "read_error"
    THEN Fetched(NoneFrame, << >>, <<"get">>, TRUE)
    ELSE IF object.kind = "zero"
    THEN Fetched(SomeFrame(empty_frame), << >>, <<"get">>, FALSE)
    ELSE IF read_csv(object).status = "ok"
    THEN Fetched(SomeFrame(prepare_data_frame(read_csv(object).rows)),
                 << >>, <<"get">>, FALSE)
    ELSE IF read_csv(object).status = "EmptyDataError"
    THEN Fetched(SomeFrame(empty_frame), << >>, <<"get">>, FALSE)
    ELSE Fetched(NoneFrame, <<"spaces_parse_failed">>, <<"get">>, FALSE)

\* put_object outside the try: its exception leaves the function
save_data_to_spaces_uncaught(df, config, boto3, object, put) ==
    IF ~spaces_client(config, boto3)
    THEN [ok |-> FALSE, spaces_object |-> object, warnings |-> << >>,
          calls |-> << >>, raised |-> FALSE]
    ELSE IF put = "ok"
    THEN [ok |-> TRUE, spaces_object |-> to_csv(df), warnings |-> << >>,
          calls |-> <<"put">>, raised |-> FALSE]
    ELSE [ok |-> FALSE, spaces_object |-> object, warnings |-> << >>,
          calls |-> <<"put">>, raised |-> TRUE]

\* the exception of put_object is caught (line 654): a warning, False
save_data_to_spaces(df, config, boto3, object, put) ==
    IF ~spaces_client(config, boto3)
    THEN [ok |-> FALSE, spaces_object |-> object, warnings |-> << >>,
          calls |-> << >>, raised |-> FALSE]
    ELSE IF put = "ok"
    THEN [ok |-> TRUE, spaces_object |-> to_csv(df), warnings |-> << >>,
          calls |-> <<"put">>, raised |-> FALSE]
    ELSE [ok |-> FALSE, spaces_object |-> object,
          warnings |-> <<"saved_locally_upload_failed">>,
          calls |-> <<"put">>, raised |-> FALSE]

\* lines 661-673 of load_data: the local frame, the local file afterwards,
\* the warnings, and whether the file was there (local_modified is not None)
read_local(local) ==
    LET csv == read_csv(local) IN
    IF local.kind = "absent"
    THEN [df |-> empty_frame, data_file |-> local, warnings |-> << >>,
          local_modified |-> FALSE]
    ELSE IF csv.status = "ok"
    THEN [df |-> prepare_data_frame(csv.rows), data_file |-> local,
          warnings |-> << >>, local_modified |-> TRUE]
    ELSE IF csv.status = "EmptyDataError"
    THEN [df |-> empty_frame, data_file |-> to_csv(empty_frame),
          warnings |-> << >>, local_modified |-> TRUE]
    ELSE [df |-> empty_frame, data_file |-> local,
          warnings |-> <<"local_csv_unreadable">>, local_modified |-> TRUE]

Loaded(ret, raised, data_file, spaces_object, warnings, calls) ==
    [ret |-> ret, raised |-> raised, data_file |-> data_file,
     spaces_object |-> spaces_object, warnings |-> warnings, calls |-> calls]

\* a load that never pushes the local log when the remote frame is None
repairs_remote_never(local_modified, config) == FALSE

\* line 678: the repair push when the remote frame is None
repairs_remote(local_modified, config) ==
    local_modified /\ spaces_enabled(config)

\* the test of line 682 inverted
remote_wins_inverted(spaces_df) == spaces_df = << >>

\* line 682: the remote log replaces the local cache
remote_wins(spaces_df) == spaces_df # << >>

\* line 687 without its "not"
seeds_remote_when_both_empty(spaces_df, local_df) ==
    spaces_df = << >> /\ local_df = << >>

\* line 687: the local log seeds the remote
seeds_remote(spaces_df, local_df) == spaces_df = << >> /\ local_df # << >>

load_data(config, boto3, local, object, get, put) ==
    LET loc == read_local(local)
        fetched == load_data_from_spaces(config, boto3, object, get)
        pushed == save_data_to_spaces(loc.df, config, boto3, object, put)
        spaces_df == fetched.df.rows
        \* return local_df after save_data_to_spaces(local_df, active_config)
        after_push ==
            Loaded(loc.df, pushed.raised, loc.data_file, pushed.spaces_object,
                   loc.warnings \o fetched.warnings \o pushed.warnings,
                   fetched.calls \o pushed.calls)
    IN
    IF fetched.raised
    THEN Loaded(empty_frame, TRUE, loc.data_file, object,
                loc.warnings \o fetched.warnings, fetched.calls)
    ELSE IF ~fetched.df.some
    THEN IF repairs_remote(loc.local_modified, config)
         THEN after_push
         ELSE Loaded(loc.df, FALSE, loc.data_file, object,
                     loc.warnings \o fetched.warnings, fetched.calls)
    ELSE IF remote_wins(spaces_df)
    THEN Loaded(spaces_df, FALSE, to_csv(spaces_df), object,
                loc.warnings \o fetched.warnings, fetched.calls)
    ELSE IF seeds_remote(spaces_df, loc.df)
    THEN after_push
    ELSE Loaded(spaces_df, FALSE, loc.data_file, object,
                loc.warnings \o fetched.warnings, fetched.calls)

\* a save that keeps the rows of the remote object the saved log lacks
save_data_keeping_remote_rows(df, config, boto3, object, put) ==
    LET kept == IF object.kind = "csv"
                THEN SelectSeq(prepare_data_frame(object.rows),
                               LAMBDA row :
                                   \A i \in DOMAIN df : df[i].id # row.id)
                ELSE << >>
        merged == kept \o df
        pushed == save_data_to_spaces(merged, config, boto3, object, put)
    IN
    Loaded(merged, pushed.raised, to_csv(merged), pushed.spaces_object,
           pushed.warnings, pushed.calls)

\* lines 694-698: the local file first, then the push
save_data(df, config, boto3, object, put) ==
    LET pushed == save_data_to_spaces(df, config, boto3, object, put) IN
    Loaded(df, pushed.raised, to_csv(df), pushed.spaces_object,
           pushed.warnings, pushed.calls)

\* "Import local CSV to Spaces now" (render_spaces_settings): the read of
\* the local file is pushed only when it parsed
import_local_csv(config, boto3, local, object, put) ==
    LET csv == read_csv(local)
        local_df == prepare_data_frame(csv.rows)
        pushed == save_data_to_spaces(local_df, config, boto3, object, put)
    IN
    IF ~spaces_enabled(config)
    THEN Loaded(empty_frame, FALSE, local, object,
                <<"add_credentials_first">>, << >>)
    ELSE IF local.kind = "absent"
    THEN Loaded(empty_frame, FALSE, local, object, <<"no_local_csv">>, << >>)
    ELSE IF csv.status = "ok"
    THEN Loaded(local_df, pushed.raised, local, pushed.spaces_object,
                pushed.warnings, pushed.calls)
    ELSE IF csv.status = "EmptyDataError"
    THEN Loaded(empty_frame, FALSE, local, object, << >>, << >>)
    ELSE Loaded(empty_frame, FALSE, local, object,
                <<"could_not_read_local_csv">>, << >>)

\* ------------------------------------------------ outside conditions
\* Optional[dict]: None, or the snapshot (time and dew point are carried
\* along and decide nothing; a field the source left out is None, here NaN)
NoneSnapshot == [some |-> FALSE, temp_c |-> NaN, rh |-> NaN]
Snapshot(temp_c, rh) == [some |-> TRUE, temp_c |-> temp_c, rh |-> rh]

\* What the weather source answers: no answer in time, or a status and a
\* body; a body is JSON or not; a JSON document has a type, and an object
\* may have a "current" entry, itself a JSON value.
Current(type, truthy, temperature_2m, relative_humidity_2m) ==
    [type |-> type, truthy |-> truthy, temperature_2m |-> temperature_2m,
     relative_humidity_2m |-> relative_humidity_2m]

MissingCurrent == Current("missing", FALSE, NaN, NaN)

Response(kind, status, is_json, type, current) ==
    [kind |-> kind, status |-> status, is_json |-> is_json, type |-> type,
     current |-> current]

Responses ==
    {Response("timeout", 0, FALSE, "none", MissingCurrent),
     Response("http", 503, TRUE, "object", Current("object", TRUE, 9, 80)),
     Response("http", HTTP_OK, FALSE, "none", MissingCurrent),
     Response("http", HTTP_OK, TRUE, "array", MissingCurrent),
     Response("http", HTTP_OK, TRUE, "object", MissingCurrent),
     Response("http", HTTP_OK, TRUE, "object", Current("null", FALSE, NaN, NaN)),
     Response("http", HTTP_OK, TRUE, "object", Current("object", FALSE, NaN, NaN)),
     Response("http", HTTP_OK, TRUE, "object", Current("number", TRUE, NaN, NaN)),
     \* a current block with entries, none of them a requested field
     Response("http", HTTP_OK, TRUE, "object", Current("object", TRUE, NaN, NaN)),
     Response("http", HTTP_OK, TRUE, "object", Current("object", TRUE, 12, 70)),
     Response("http", HTTP_OK, TRUE, "object", Current("object", TRUE, 9, 80))}

\* no request was made
NoResponse == Response("none", 0, FALSE, "none", MissingCurrent)

Fetch(result, raised) == [result |-> result, raised |-> raised]

\* the body of fetch_outside_conditions, lines 730-752, on one response
fetch_outside_conditions(response) ==
    IF response.kind = "timeout" THEN Fetch(NoneSnapshot, FALSE)
    ELSE IF response.status # HTTP_OK THEN Fetch(NoneSnapshot, FALSE)
    ELSE IF ~response.is_json THEN Fetch(NoneSnapshot, FALSE)
    \* data.get outside the try: AttributeError unless data is a dict
    ELSE IF response.type # "object" THEN Fetch(NoneSnapshot, TRUE)
    ELSE IF ~response.current.truthy THEN Fetch(NoneSnapshot, FALSE)
    \* current.get: AttributeError unless current is a dict
    ELSE IF response.current.type # "object" THEN Fetch(NoneSnapshot, TRUE)
    ELSE Fetch(Snapshot(response.current.temperature_2m,
                        response.current.relative_humidity_2m), FALSE)

\* the (lat, lon, timezone) triples of the calls, in thousandths of a
\* degree: the one the application uses and another one
OUTSIDE_LAT == -37813
OUTSIDE_LON == 144985
OUTSIDE_TZ == "Australia/Melbourne"
Triple(lat, lon, timezone) == [lat |-> lat, lon |-> lon, timezone |-> timezone]
Triples ==
    {Triple(OUTSIDE_LAT, OUTSIDE_LON, OUTSIDE_TZ),
     Triple(51507, -128, "Europe/London")}

\* st.cache_data: an entry per argument triple, with the time it was stored
NoEntry == [stored |-> FALSE, at |-> 0, value |-> NoneSnapshot]
Entry(at, value) == [stored |-> TRUE, at |-> at, value |-> value]
EmptyCache == [k \in Triples |-> NoEntry]

\* an entry that is not returned once ttl seconds have passed
cache_hit_forever(entry, time) == entry.stored

\* st.cache_data(ttl=900): an entry is returned until ttl seconds after it
\* was stored
cache_hit(entry, time) == entry.stored /\ time - entry.at < CACHE_TTL

\* the instants at which the model looks at the clock: around each expiry
Instants ==
    {t \in {k * CACHE_TTL + d : k \in 0..MaxPeriods, d \in {-1, 0, 1}} :
        t >= 0}

\* ------------------------------------------------------------------ state
VARIABLES
    data_file,       \* the file at DATA_PATH
    spaces_object,   \* the object at (bucket, object_key)
    spaces_config,   \* st.session_state["spaces_config"] of each session
    boto3,           \* whether the import of boto3 succeeded
    pc,              \* where each session's script run stands
    df,              \* the module-level df of each session's script run
    next_id,         \* the ids uuid4 has handed out
    last,            \* the latest storage operation, as its caller saw it
    now,             \* the clock of the process, in seconds
    cache,           \* st.cache_data's entries for fetch_outside_conditions
    outside,         \* the latest call of fetch_outside_conditions
    df_eval          \* the latest result of evaluate_records

vars == <<data_file, spaces_object, spaces_config, boto3, pc, df, next_id,
          last, now, cache, outside, df_eval>>

storage_vars == <<data_file, spaces_object, spaces_config, boto3, pc, df,
                  next_id, last>>
outside_vars == <<now, cache, outside>>

\* ----------------------------------------------------------------- inputs
Reading(id, hour, location, temp_c, rh, outside_temp_c, outside_rh) ==
    [id |-> id, datetime |-> hour, location |-> location, temp_c |-> temp_c,
     rh |-> rh, outside_temp_c |-> outside_temp_c, outside_rh |-> outside_rh]

LocalRow1 == csv_row(Reading("local-1", 0, "Compactus", 20, 50, NaN, NaN))
LocalRow2 == csv_row(Reading("local-2", 2, "Compactus", 26, 42, 12, 70))
RemoteRow1 == csv_row(Reading("remote-1", 0, "Workroom", 18, 48, NaN, NaN))
\* a row whose datetime and temperature do not parse
RemoteRow2 ==
    [id |-> "remote-2", datetime |-> "yesterday", location |-> "Workroom",
     temp_c |-> "n/a", rh |-> "61", outside_temp_c |-> "", outside_rh |-> ""]

LocalFiles ==
    {AbsentFile, ZeroByteFile, CorruptFile, CsvFile(<< >>),
     CsvFile(<<LocalRow1>>), CsvFile(<<LocalRow1, LocalRow2>>)}

RemoteObjects ==
    {AbsentFile, ZeroByteFile, CorruptFile, CsvFile(<< >>),
     CsvFile(<<RemoteRow1>>), CsvFile(<<RemoteRow1, RemoteRow2>>)}

Config(bucket, object_key, access_key_id, secret_access_key) ==
    [bucket |-> bucket, object_key |-> object_key,
     access_key_id |-> access_key_id,
     secret_access_key |-> secret_access_key]

\* what the environment or the settings form may hold
ConfigInputs ==
    {Config("", "", "", ""),
     Config(" ", "", "key", "key"),
     Config("bucket", "", " key ", "key")}

\* what fetch_outside_conditions gave the submit handler: nothing, a
\* snapshot, or the snapshot of a current block without the requested fields
SnapshotInputs ==
    {fetch_outside_conditions(response).result :
        response \in {Response("timeout", 0, FALSE, "none", MissingCurrent),
                      Response("http", HTTP_OK, TRUE, "object",
                               Current("object", TRUE, 12, 70)),
                      Response("http", HTTP_OK, TRUE, "object",
                               Current("object", TRUE, NaN, NaN))}}

NoOperation ==
    [op |-> "none", session |-> 0,
     config |-> normalize_spaces_config(Config("", "", "", "")),
     enabled |-> FALSE, get |-> "none",
     put |-> "none", local_before |-> AbsentFile,
     remote_before |-> AbsentFile, arg |-> empty_frame, ret |-> empty_frame,
     raised |-> FALSE, warnings |-> << >>, calls |-> << >>]

Issued(calls, call) == \E i \in DOMAIN calls : calls[i] = call

\* the record of one storage operation of session s with result r
Operation(op, s, get, put, arg, r) ==
    [op |-> op, session |-> s, config |-> spaces_config[s],
     enabled |-> spaces_enabled(spaces_config[s]),
     get |-> IF Issued(r.calls, "get") THEN get ELSE "none",
     put |-> IF Issued(r.calls, "put") THEN put ELSE "none",
     local_before |-> data_file, remote_before |-> spaces_object,
     arg |-> arg, ret |-> r.ret, raised |-> r.raised,
     warnings |-> r.warnings, calls |-> r.calls]

NoCall ==
    [called |-> FALSE, key |-> Triple(0, 0, "none"), at |-> 0,
     network |-> NoResponse, result |-> NoneSnapshot, raised |-> FALSE,
     cache_before |-> EmptyCache]

Init ==
    /\ data_file \in LocalFiles
    /\ spaces_object \in RemoteObjects
    /\ \E config \in ConfigInputs :
          spaces_config = [s \in Sessions |-> normalize_spaces_config(config)]
    /\ boto3 \in BOOLEAN
    /\ pc = [s \in Sessions |-> "start"]
    /\ df = [s \in Sessions |-> empty_frame]
    /\ next_id = 1
    /\ last = NoOperation
    /\ now = 0
    /\ cache = EmptyCache
    /\ outside = NoCall
    /\ df_eval = empty_frame

\* ---------------------------------------------------------------- actions
\* line 921: df = load_data(); an exception ends the script run
LoadData(s) ==
    /\ pc[s] = "start"
    /\ \E get \in GetOutcomes, put \in PutOutcomes :
          LET r == load_data(spaces_config[s], boto3, data_file,
                             spaces_object, get, put)
          IN
          /\ data_file' = r.data_file
          /\ spaces_object' = r.spaces_object
          /\ pc' = [pc EXCEPT ![s] = IF r.raised THEN "start" ELSE "loaded"]
          /\ df' = [df EXCEPT ![s] = r.ret]
          /\ last' = Operation("load", s, get, put, empty_frame, r)
    /\ UNCHANGED <<spaces_config, boto3, next_id, now, cache, outside, df_eval>>

\* the save of a handler of session s, after which its script run is over
Save(op, s, frame, put) ==
    LET r == save_data(frame, spaces_config[s], boto3, spaces_object, put) IN
    /\ data_file' = r.data_file
    /\ spaces_object' = r.spaces_object
    /\ pc' = [pc EXCEPT ![s] = "start"]
    /\ df' = [df EXCEPT ![s] = empty_frame]
    /\ last' = Operation(op, s, "none", put, frame, r)

\* lines 955-957: "Clear Data", confirmed
ClearData(s) ==
    /\ pc[s] = "loaded"
    /\ \E put \in PutOutcomes : Save("clear", s, empty_frame, put)
    /\ UNCHANGED <<spaces_config, boto3, next_id, now, cache, outside, df_eval>>

\* an id handed out a second time
uuid4_repeated == "local-1"

\* line 1052: an id no row has yet
uuid4 == "new-" \o ToString(next_id)

\* lines 1049-1067: "Record Reading" asks the outside provider, appends one
\* row and saves the log
RecordReading(s) ==
    /\ pc[s] = "loaded"
    /\ next_id <= MaxId
    /\ \E put \in PutOutcomes, outside_snapshot \in SnapshotInputs :
          LET new_row ==
                  Reading(uuid4, 3, "Workroom", 21, 50,
                          IF outside_snapshot.some
                          THEN outside_snapshot.temp_c ELSE NaN,
                          IF outside_snapshot.some
                          THEN outside_snapshot.rh ELSE NaN)
          IN /\ Save("record", s, Append(df[s], new_row), put)
             /\ outside' =
                    [NoCall EXCEPT
                        !.called = TRUE,
                        !.key = Triple(OUTSIDE_LAT, OUTSIDE_LON, OUTSIDE_TZ),
                        !.result = outside_snapshot]
    /\ next_id' = next_id + 1
    /\ UNCHANGED <<spaces_config, boto3, now, cache, df_eval>>

\* a script run that ends without a handler
EndRun(s) ==
    /\ pc[s] = "loaded"
    /\ pc' = [pc EXCEPT ![s] = "start"]
    /\ df' = [df EXCEPT ![s] = empty_frame]
    /\ UNCHANGED <<data_file, spaces_object, spaces_config, boto3, next_id,
                   last, now, cache, outside, df_eval>>

\* lines 878-894: "Save Spaces Settings", then st.rerun()
SaveSpacesSettings(s) ==
    /\ pc[s] = "loaded"
    /\ \E updated \in ConfigInputs :
          spaces_config' =
              [spaces_config EXCEPT ![s] = normalize_spaces_config(
                  [updated EXCEPT
                      !.access_key_id =
                          IF strip(@) = "" THEN spaces_config[s].access_key_id
                          ELSE @,
                      !.secret_access_key =
                          IF strip(@) = ""
                          THEN spaces_config[s].secret_access_key ELSE @])]
    /\ spaces_config' # spaces_config
    /\ pc' = [pc EXCEPT ![s] = "start"]
    /\ df' = [df EXCEPT ![s] = empty_frame]
    /\ UNCHANGED <<data_file, spaces_object, boto3, next_id, last, now, cache,
                   outside, df_eval>>

\* lines 911-915: "Clear Spaces Settings", then st.rerun()
ClearSpacesSettings(s) ==
    /\ pc[s] = "loaded"
    /\ spaces_config' =
           [spaces_config EXCEPT
               ![s] = normalize_spaces_config(Config("", "", "", ""))]
    /\ spaces_config' # spaces_config
    /\ pc' = [pc EXCEPT ![s] = "start"]
    /\ df' = [df EXCEPT ![s] = empty_frame]
    /\ UNCHANGED <<data_file, spaces_object, boto3, next_id, last, now, cache,
                   outside, df_eval>>

\* lines 895-910: "Import local CSV to Spaces now"
ImportLocalCsv(s) ==
    /\ pc[s] = "loaded"
    /\ \E put \in PutOutcomes :
          LET r == import_local_csv(spaces_config[s], boto3, data_file,
                                    spaces_object, put)
          IN
          /\ spaces_object' = r.spaces_object
          /\ last' = Operation("import", s, "none", put, r.ret, r)
    /\ pc' = [pc EXCEPT ![s] = "start"]
    /\ df' = [df EXCEPT ![s] = empty_frame]
    /\ UNCHANGED <<data_file, spaces_config, boto3, next_id, now, cache,
                   outside, df_eval>>

\* one step of the script run of session s
Run(s) ==
    \/ LoadData(s)
    \/ ClearData(s)
    \/ RecordReading(s)
    \/ EndRun(s)
    \/ SaveSpacesSettings(s)
    \/ ClearSpacesSettings(s)
    \/ ImportLocalCsv(s)

\* one session at a time: load, at most one handler, end
Next == Run(1)

Spec == Init /\ [][Next]_vars

\* ----------------------------------------------------- reconciler claims
\* the log a file holds, as a reader of it gets it (no file, zero bytes and
\* unreadable bytes give no rows)
LogOf(file) ==
    IF file.kind = "csv" THEN prepare_data_frame(file.rows) ELSE empty_frame

IsLoad == last.op = "load"
IsSave == last.op \in {"clear", "record"}

\* the get reached the store and the store answered with the object
FetchSucceeded ==
    /\ last.get = "ok"
    /\ last.remote_before.kind \in {"zero", "csv"}

\* C1: with sync enabled, a load whose remote fetch succeeds with a
\* non-empty remote log returns exactly the remote log and leaves exactly
\* the remote log in the local cache, whatever the cache held before.
C1_RemoteLogWins ==
    (IsLoad /\ last.enabled /\ FetchSucceeded
        /\ LogOf(last.remote_before) # << >>)
    => /\ ~last.raised
       /\ last.ret = LogOf(last.remote_before)
       /\ data_file.kind = "csv"
       /\ LogOf(data_file) = LogOf(last.remote_before)

\* a load that replaced two local rows by two different remote rows
C1_Witness ==
    /\ IsLoad /\ last.enabled /\ FetchSucceeded
    /\ Len(LogOf(last.local_before)) = 2
    /\ Len(LogOf(last.remote_before)) = 2
    /\ LogOf(last.local_before) # LogOf(last.remote_before)
    /\ LogOf(data_file) = LogOf(last.remote_before)
    /\ last.ret = LogOf(last.remote_before)

\* C2: with sync enabled, a load whose remote fetch succeeds with an empty
\* log while the local log has rows returns the local log and puts it to
\* the remote; when the put succeeds the remote then reads as those rows.
C2_LocalSeedsEmptyRemote ==
    (IsLoad /\ last.enabled /\ FetchSucceeded
        /\ LogOf(last.remote_before) = << >>
        /\ LogOf(last.local_before) # << >>)
    => /\ ~last.raised
       /\ last.ret = LogOf(last.local_before)
       /\ last.calls = <<"get", "put">>
       /\ last.put = "ok" =>
             load_data_from_spaces(last.config, boto3, spaces_object,
                                   "ok").df
             = SomeFrame(LogOf(last.local_before))

\* a load that seeded a header-only remote object with two local rows
C2_Witness ==
    /\ IsLoad /\ last.enabled /\ FetchSucceeded
    /\ last.remote_before = CsvFile(<< >>)
    /\ Len(LogOf(last.local_before)) = 2
    /\ last.put = "ok"
    /\ LogOf(spaces_object) = LogOf(last.local_before)
    /\ last.ret = LogOf(last.local_before)

\* C3: a save of any log L whose put fails completes without raising,
\* surfaces the warning, and leaves exactly L in the local cache.
C3_SaveSurvivesPushFailure ==
    (IsSave /\ last.put = "transport_error")
    => /\ ~last.raised
       /\ Issued(last.warnings, "saved_locally_upload_failed")
       /\ data_file = to_csv(last.arg)
       /\ LogOf(data_file) = last.arg

\* a failed push of a log of three rows that differs from what the remote
\* and the local cache held
C3_Witness ==
    /\ last.op = "record" /\ last.put = "transport_error"
    /\ Len(last.arg) = 3
    /\ LogOf(data_file) = last.arg
    /\ LogOf(last.local_before) # last.arg
    /\ spaces_object = last.remote_before
    /\ LogOf(spaces_object) # last.arg

\* C4: with sync disabled a load returns the local log, and neither a load
\* nor a save issues a get or a put or changes the remote object.
C4_DisabledSyncTouchesNoRemote ==
    ((IsLoad \/ IsSave) /\ ~last.enabled)
    => /\ last.calls = << >>
       /\ spaces_object = last.remote_before
       /\ ~last.raised
       /\ IsLoad => last.ret = LogOf(last.local_before)
       /\ IsSave => LogOf(data_file) = last.arg

\* with boto3 there and sync disabled, a load returned the local rows while
\* the remote object held other rows, after an earlier disabled save
C4_Witness ==
    /\ IsLoad /\ ~last.enabled /\ boto3
    /\ next_id > 1
    /\ last.ret # << >>
    /\ LogOf(spaces_object) # << >>
    /\ LogOf(spaces_object) # last.ret

\* the remote fetch is unavailable: the get fails with an error that
\* load_data_from_spaces reports, or the object does not parse
FetchUnavailable ==
    \/ last.get \in {"client_error", "transport_error"}
    \/ last.get = "ok" /\ last.remote_before.kind = "corrupt"

\* C5: when the remote fetch is unavailable, a load returns the local log
\* and issues the repair put only if the local log has rows; with an empty
\* local log it writes nothing to the remote.
C5_RepairOnlyFromNonEmptyLocal ==
    (IsLoad /\ last.enabled /\ FetchUnavailable)
    => /\ ~last.raised
       /\ last.ret = LogOf(last.local_before)
       /\ Issued(last.calls, "put") => LogOf(last.local_before) # << >>

\* C6: a get that finds no object is "remote has no data": no warning of
\* the fetch, the remote seeded from a local log with rows, and with an
\* empty local log the empty log returned and nothing written.
C6_NotFoundIsEmptyRemote ==
    (IsLoad /\ last.enabled /\ last.get = "ok"
        /\ last.remote_before.kind = "absent")
    => /\ ~last.raised
       /\ ~Issued(last.warnings, "spaces_load_error_code")
       /\ ~Issued(last.warnings, "spaces_load_failed")
       /\ last.ret = LogOf(last.local_before)
       /\ Issued(last.calls, "put") <=> LogOf(last.local_before) # << >>

\* C7: a load that finds the local cache unreadable (zero bytes or bytes
\* that do not parse) leaves a readable cache behind.
C7_CorruptCacheIsRewritten ==
    (IsLoad /\ last.local_before.kind \in {"zero", "corrupt"})
    => data_file.kind = "csv"

\* ------------------------------------------------- the provider's cache
OutsideInit ==
    /\ data_file = AbsentFile
    /\ spaces_object = AbsentFile
    /\ spaces_config =
           [s \in Sessions |-> normalize_spaces_config(Config("", "", "", ""))]
    /\ boto3 = TRUE
    /\ pc = [s \in Sessions |-> "start"]
    /\ df = [s \in Sessions |-> empty_frame]
    /\ next_id = 1
    /\ last = NoOperation
    /\ now = 0
    /\ cache = EmptyCache
    /\ outside = NoCall
    /\ df_eval = empty_frame

\* a call that st.cache_data answers from its entry
CachedCall(key) ==
    /\ cache_hit(cache[key], now)
    /\ outside' = [called |-> TRUE, key |-> key, at |-> now,
                   network |-> NoResponse, result |-> cache[key].value,
                   raised |-> FALSE, cache_before |-> cache]
    /\ UNCHANGED <<cache, now>>
    /\ UNCHANGED <<storage_vars, df_eval>>

\* a call that runs the function: its return value is stored, an exception
\* leaves the function and stores nothing
NetworkCall(key) ==
    /\ ~cache_hit(cache[key], now)
    /\ \E response \in Responses :
          LET r == fetch_outside_conditions(response) IN
          /\ outside' = [called |-> TRUE, key |-> key, at |-> now,
                         network |-> response, result |-> r.result,
                         raised |-> r.raised, cache_before |-> cache]
          /\ cache' = IF r.raised THEN cache
                      ELSE [cache EXCEPT ![key] = Entry(now, r.result)]
    /\ UNCHANGED now
    /\ UNCHANGED <<storage_vars, df_eval>>

\* time passes
Tick ==
    /\ \E t \in Instants : t > now /\ now' = t
    /\ UNCHANGED <<cache, outside>>
    /\ UNCHANGED <<storage_vars, df_eval>>

OutsideNext ==
    \/ \E key \in Triples : CachedCall(key)
    \/ \E key \in Triples : NetworkCall(key)
    \/ Tick

SpecOutside == OutsideInit /\ [][OutsideNext]_vars

\* ------------------------------------------------------- provider claims
\* the latest call went to the network
Networked == outside.network.kind # "none"

\* the weather call failed: no answer in time, a status other than 200, a
\* body that is no JSON, a JSON document that is no object, or a "current"
\* entry that is missing or no object
WeatherCallFailed ==
    LET response == outside.network IN
    \/ response.kind = "timeout"
    \/ response.status # HTTP_OK
    \/ ~response.is_json
    \/ response.type # "object"
    \/ response.current.type # "object"

\* C8: fetch_outside_conditions never raises; on every failure of the
\* weather call it returns None.
C8_FetchNeverRaises ==
    (outside.called /\ Networked /\ WeatherCallFailed)
    => /\ ~outside.raised
       /\ outside.result = NoneSnapshot

\* C9: a call less than the TTL after a successful fetch for its triple
\* returns the stored snapshot without a network call; a call at or after
\* the TTL, or for a triple without an entry, goes to the network; a call
\* leaves the entries of the other triples alone.
C9_CachedForTtl ==
    outside.called =>
        LET entry == outside.cache_before[outside.key]
            age == outside.at - entry.at
        IN
        /\ (entry.stored /\ entry.value.some /\ age < CACHE_TTL)
              => /\ ~Networked
                 /\ ~outside.raised
                 /\ outside.result = entry.value
                 /\ cache = outside.cache_before
        /\ (entry.stored /\ entry.value.some /\ age >= CACHE_TTL)
              => Networked
        /\ ~entry.stored => Networked
        /\ \A k \in Triples \ {outside.key} :
              cache[k] = outside.cache_before[k]

\* a call 899 s after a successful fetch answered from the cache, while the
\* other triple holds an entry with another snapshot
C9_Witness ==
    /\ outside.called /\ ~Networked
    /\ outside.result.some
    /\ outside.at - cache[outside.key].at = CACHE_TTL - 1
    /\ \E k \in Triples \ {outside.key} :
          /\ cache[k].stored /\ cache[k].value.some
          /\ cache[k].value # outside.result

\* ------------------------------------------------------ evaluation engine
isna(x) == x = NaN \/ x = NaT
notna(x) == ~isna(x)

\* the lower edges of the bands compared with <= and >= the threshold
\* compared with >
lt_inclusive(a, b) == notna(a) /\ notna(b) /\ a <= b
ge_exclusive(a, b) == notna(a) /\ notna(b) /\ a > b

\* comparisons and arithmetic of floats: every comparison with NaN is false
lt(a, b) == notna(a) /\ notna(b) /\ a < b
gt(a, b) == notna(a) /\ notna(b) /\ a > b
le(a, b) == notna(a) /\ notna(b) /\ a <= b
ge(a, b) == notna(a) /\ notna(b) /\ a >= b
sub(a, b) == IF isna(a) \/ isna(b) THEN NaN ELSE a - b
\* the difference compared with its sign
abs_signed(x) == x

\* line 790: abs
abs(x) == IF isna(x) THEN NaN ELSE IF x < 0 THEN -x ELSE x

\* the order of the location strings
location_rank(location) ==
    CASE location = "Compactus" -> 1
      [] location = "Workroom" -> 2
      [] OTHER -> 3

\* row a sorts strictly before row b under ["location", "datetime"], a
\* missing datetime last
sorts_before(a, b) ==
    \/ location_rank(a.location) < location_rank(b.location)
    \/ /\ a.location = b.location
       /\ \/ notna(a.datetime) /\ isna(b.datetime)
          \/ notna(a.datetime) /\ notna(b.datetime) /\ a.datetime < b.datetime

\* x put behind the rows of a sorted frame that do not sort after it
insert_sorted(sorted, x) ==
    LET k == Cardinality({i \in DOMAIN sorted : ~sorts_before(x, sorted[i])})
    IN SubSeq(sorted, 1, k) \o <<x>> \o SubSeq(sorted, k + 1, Len(sorted))

\* line 759: df.sort_values(["location", "datetime"]), which keeps the
\* order of rows with equal keys
RECURSIVE sort_values(_)
sort_values(rows) ==
    IF rows = << >> THEN << >>
    ELSE insert_sorted(sort_values(SubSeq(rows, 1, Len(rows) - 1)),
                       rows[Len(rows)])

\* the rows shifted without grouping them by location
shift_ungrouped(sorted, i) == IF i > 1 THEN i - 1 ELSE 0

\* lines 760-762: groupby("location").shift(1), as the index of the row
\* before row i in its location, 0 when there is none
shift(sorted, i) ==
    IF i > 1 /\ sorted[i - 1].location = sorted[i].location THEN i - 1 ELSE 0

\* lines 760-763: the row with its prev_temp, prev_rh, prev_time, delta_hours
with_prior(sorted, i) ==
    LET j == shift(sorted, i)
        prev_time == IF j = 0 THEN NaT ELSE sorted[j].datetime
    IN
    [id |-> sorted[i].id,
     datetime |-> sorted[i].datetime,
     location |-> sorted[i].location,
     temp_c |-> sorted[i].temp_c,
     rh |-> sorted[i].rh,
     outside_temp_c |-> sorted[i].outside_temp_c,
     outside_rh |-> sorted[i].outside_rh,
     prev_temp |-> IF j = 0 THEN NaN ELSE sorted[j].temp_c,
     prev_rh |-> IF j = 0 THEN NaN ELSE sorted[j].rh,
     prev_time |-> prev_time,
     delta_hours |-> sub(sorted[i].datetime, prev_time)]

\* a flag "label|level"; value is the number its label prints, 0 when none
Flag(label, level, value) == [label |-> label, level |-> level, value |-> value]

when(condition, flag) == IF condition THEN <<flag>> ELSE << >>

\* the humidity of a row in the outer band made its status "outer" although
\* the temperature had made it "out"
outer_band_status_forgets_out(range_status) == "outer"

\* lines 778-779: the outer band does not lower "out"
outer_band_status(range_status) ==
    IF range_status # "out" THEN "outer" ELSE range_status

\* the drift check left out a prior reading exactly 24 hours old
in_drift_window_exclusive(delta_hours) ==
    notna(delta_hours) /\ lt(delta_hours, DRIFT_WINDOW_HOURS)

\* line 798: pd.notna(delta_hours) and delta_hours <= 24
in_drift_window(delta_hours) ==
    notna(delta_hours) /\ le(delta_hours, DRIFT_WINDOW_HOURS)

\* lines 765-806
classify(row) ==
    LET temp_out == lt(row.temp_c, TEMP_MIN) \/ gt(row.temp_c, TEMP_MAX)
        rh_off_core == lt(row.rh, RH_CORE_MIN) \/ gt(row.rh, RH_CORE_MAX)
        rh_in_outer == le(RH_OUTER_MIN, row.rh) /\ le(row.rh, RH_OUTER_MAX)
        after_temp == IF temp_out THEN "out" ELSE "core"
        range_status ==
            IF rh_off_core
            THEN IF rh_in_outer THEN outer_band_status(after_temp) ELSE "out"
            ELSE after_temp
        delta_temp == sub(row.temp_c, row.outside_temp_c)
        delta_rh == sub(row.rh, row.outside_rh)
        in_window == in_drift_window(row.delta_hours)
        temp_delta == IF notna(row.prev_temp)
                      THEN abs(sub(row.temp_c, row.prev_temp)) ELSE 0
        rh_delta == IF notna(row.prev_rh)
                    THEN abs(sub(row.rh, row.prev_rh)) ELSE 0
    IN
    [range_status |-> range_status,
     flags |->
        when(temp_out, Flag("Temp out of range", "danger", 0))
        \o when(rh_off_core /\ rh_in_outer,
                Flag("RH in outer band", "warn", 0))
        \o when(rh_off_core /\ ~rh_in_outer,
                Flag("RH out of range", "danger", 0))
        \o when(ge(row.rh, MOULD_RISK_RH), Flag("Mould risk", "danger", 0))
        \o when(notna(row.outside_temp_c)
                    /\ gt(abs(delta_temp), OUTSIDE_TEMP_DELTA_WARN),
                Flag("Temp delta vs outside", "warn", delta_temp))
        \o when(notna(row.outside_rh)
                    /\ gt(abs(delta_rh), OUTSIDE_RH_DELTA_WARN),
                Flag("RH delta vs outside", "warn", delta_rh))
        \o when(in_window /\ gt(temp_delta, TEMP_DELTA),
                Flag("Temp drift", "warn", temp_delta))
        \o when(in_window /\ gt(rh_delta, RH_DELTA),
                Flag("RH drift", "warn", rh_delta))]

\* lines 755-811: an empty frame is returned as it is
evaluate_records(frame) ==
    IF frame = << >> THEN frame
    ELSE LET sorted == sort_values(frame) IN
         [i \in DOMAIN sorted |->
            LET row == with_prior(sorted, i)
                results == classify(row)
            IN [id |-> row.id, datetime |-> row.datetime,
                location |-> row.location, temp_c |-> row.temp_c,
                rh |-> row.rh, outside_temp_c |-> row.outside_temp_c,
                outside_rh |-> row.outside_rh, prev_temp |-> row.prev_temp,
                prev_rh |-> row.prev_rh, prev_time |-> row.prev_time,
                delta_hours |-> row.delta_hours,
                range_status |-> results.range_status,
                flags |-> results.flags]]

\* the measurements the evaluation is tried on: every band edge of
\* temperature and humidity at one place and hour, readings with an outside
\* snapshot on either side of the warning thresholds, readings at both
\* places a day and a day and an hour later
BandInputs ==
    {Reading("", 0, "Compactus", t, h, NaN, NaN) :
        t \in {14, 15, 19, 25, 26},
        h \in {39, 40, 44, 45, 55, 56, 60, 61, 70}}

OutsideInputs ==
    {Reading("", 0, "Compactus", t, h, 8, 25) : t \in {14, 15}, h \in {40, 44}}
    \cup {Reading("", 0, "Compactus", t, h, 32, 71) :
            t \in {25, 26}, h \in {55, 56}}
    \cup {Reading("", 0, "Compactus", 26, 44, 8, NaN)}

LaterInputs ==
    {Reading("", hour, location, m[1], m[2], NaN, NaN) :
        hour \in {24, 25}, location \in LOCATIONS,
        m \in {<<19, 45>>, <<25, 55>>}}

\* 20 C in the Workroom, followed by 25 C one hour and thirty hours later,
\* and humidities on either side of the mould threshold
ExampleInputs ==
    {Reading("", 0, "Workroom", 20, 50, NaN, NaN),
     Reading("", 1, "Workroom", 25, 50, NaN, NaN),
     Reading("", 30, "Workroom", 25, 50, NaN, NaN),
     Reading("", 0, "Workroom", 20, 69, NaN, NaN),
     Reading("", 0, "Workroom", 20, 75, NaN, NaN)}

MeasurementInputs ==
    BandInputs \cup OutsideInputs \cup LaterInputs \cup ExampleInputs

EvalInit ==
    /\ data_file = AbsentFile
    /\ spaces_object = AbsentFile
    /\ spaces_config =
           [s \in Sessions |-> normalize_spaces_config(Config("", "", "", ""))]
    /\ boto3 = TRUE
    /\ pc = [s \in Sessions |-> "loaded"]
    /\ df = [s \in Sessions |-> empty_frame]
    /\ next_id = 1
    /\ last = NoOperation
    /\ now = 0
    /\ cache = EmptyCache
    /\ outside = NoCall
    /\ df_eval = empty_frame

\* lines 1066 and 1070: one more measurement in the log of session 1, and
\* the evaluation of the whole log
EvaluateRecords ==
    /\ Len(df[1]) < MaxRows
    /\ \E m \in MeasurementInputs :
          LET log == Append(df[1],
                            [m EXCEPT !.id = "m-" \o ToString(Len(df[1]) + 1)])
          IN
          /\ df' = [df EXCEPT ![1] = log]
          /\ df_eval' = evaluate_records(log)
    /\ UNCHANGED <<data_file, spaces_object, spaces_config, boto3, pc,
                   next_id, last, now, cache, outside>>

EvalNext == EvaluateRecords

SpecEval == EvalInit /\ [][EvalNext]_vars

\* ------------------------------------------------------ evaluation claims
Rows(frame) == {frame[i] : i \in DOMAIN frame}
Within(x, min, max) == min <= x /\ x <= max
HasFlag(row, label) == \E i \in DOMAIN row.flags : row.flags[i].label = label

\* C10: range_status is out iff the temperature is outside [15,25] or the
\* humidity outside [40,60]; outer iff the temperature is within [15,25]
\* and the humidity within [40,60] but outside [45,55]; core otherwise; the
\* bands include both ends, and a temperature out of range with a humidity
\* in the outer band stays out and carries both flags.
C10_RangeStatusBands ==
    \A row \in Rows(df_eval) :
        LET temp_in == Within(row.temp_c, 15, 25)
            rh_core == Within(row.rh, 45, 55)
            rh_outer == Within(row.rh, 40, 60)
        IN
        /\ row.range_status \in {"core", "outer", "out"}
        /\ row.range_status = "out" <=> (~temp_in \/ ~rh_outer)
        /\ row.range_status = "outer" <=> (temp_in /\ rh_outer /\ ~rh_core)
        /\ row.range_status = "core" <=> (temp_in /\ rh_core)
        /\ HasFlag(row, "Temp out of range") <=> ~temp_in
        /\ HasFlag(row, "RH in outer band") <=> (rh_outer /\ ~rh_core)
        /\ HasFlag(row, "RH out of range") <=> ~rh_outer

\* an evaluated log holding a reading at 26 C and 44 % that is out with
\* both flags, and a reading on the edges 25 C and 60 % that is outer
C10_Witness ==
    /\ \E row \in Rows(df_eval) :
          /\ row.temp_c = 26 /\ row.rh = 44
          /\ row.range_status = "out"
          /\ HasFlag(row, "Temp out of range")
          /\ HasFlag(row, "RH in outer band")
    /\ \E row \in Rows(df_eval) :
          /\ row.temp_c = 25 /\ row.rh = 60
          /\ row.range_status = "outer"

\* The prior record, read off the measurement list that was evaluated:
\* record j of the list precedes record i when both are of one location and
\* j is earlier in time, or of the same time and earlier in the list.
Precedes(log, j, i) ==
    /\ j # i
    /\ log[j].location = log[i].location
    /\ \/ log[j].datetime < log[i].datetime
       \/ log[j].datetime = log[i].datetime /\ j < i

HasPrior(log, i) == \E j \in DOMAIN log : Precedes(log, j, i)

\* the last of the records that precede record i
PriorOf(log, i) ==
    CHOOSE j \in DOMAIN log :
        /\ Precedes(log, j, i)
        /\ \A k \in DOMAIN log \ {j} :
              Precedes(log, k, i) => Precedes(log, k, j)

\* the evaluated row of record i of the list
EvaluatedRow(evaluated, log, i) ==
    CHOOSE row \in Rows(evaluated) : row.id = log[i].id

FlagValue(row, label) ==
    LET i == CHOOSE k \in DOMAIN row.flags : row.flags[k].label = label
    IN row.flags[i].value

Distance(a, b) == IF a < b THEN b - a ELSE a - b

\* C11: a measurement with temp_c within [15,25], rh within [45,55], no
\* outside snapshot and no prior record at its location is evaluated to
\* range_status core and an empty flag list.
C11_CompliantRecordIsCoreAndUnflagged ==
    \A i \in DOMAIN df[1] :
        LET m == df[1][i]
            row == EvaluatedRow(df_eval, df[1], i)
        IN
        (/\ Within(m.temp_c, 15, 25)
         /\ Within(m.rh, 45, 55)
         /\ m.outside_temp_c = NaN /\ m.outside_rh = NaN
         /\ ~HasPrior(df[1], i))
            => row.range_status = "core" /\ row.flags = << >>

\* a log of two compliant readings without a snapshot, one on the lower edges
\* 15 C and 45 % and one on the upper edges 25 C and 55 %, each the first of
\* its location
C11_Witness ==
    /\ Len(df[1]) = 2
    /\ df[1][1].location # df[1][2].location
    /\ \E i, j \in DOMAIN df[1] :
          /\ df[1][i].temp_c = 15 /\ df[1][i].rh = 45
          /\ df[1][j].temp_c = 25 /\ df[1][j].rh = 55
          /\ df[1][i].outside_temp_c = NaN /\ df[1][j].outside_temp_c = NaN
    /\ \A row \in Rows(df_eval) :
          row.range_status = "core" /\ row.flags = << >>

\* C12: a record carries "Temp drift" iff it has a prior record at its
\* location, at most 24 hours have passed since that record (24 hours
\* exactly included) and the temperatures differ by more than 4 C; "RH
\* drift" likewise with 5 %.  The flag prints the difference.  The first
\* record of a location and a record more than 24 hours after its prior one
\* carry no drift flag.
C12_DriftFlags ==
    \A i \in DOMAIN df[1] :
        LET m == df[1][i]
            row == EvaluatedRow(df_eval, df[1], i)
            prior == df[1][PriorOf(df[1], i)]
            recent == HasPrior(df[1], i) /\ m.datetime - prior.datetime <= 24
        IN
        /\ HasFlag(row, "Temp drift")
              <=> (recent /\ Distance(m.temp_c, prior.temp_c) > 4)
        /\ HasFlag(row, "RH drift")
              <=> (recent /\ Distance(m.rh, prior.rh) > 5)
        /\ HasFlag(row, "Temp drift")
              => FlagValue(row, "Temp drift") = Distance(m.temp_c, prior.temp_c)
        /\ HasFlag(row, "RH drift")
              => FlagValue(row, "RH drift") = Distance(m.rh, prior.rh)

\* 14 C and 39 % in the Compactus followed exactly 24 hours later by 19 C and
\* 45 %: both drift flags, printing 5 and 6
C12_Witness ==
    \E row \in Rows(df_eval) :
        /\ row.delta_hours = 24
        /\ row.prev_temp = 14 /\ row.temp_c = 19
        /\ row.prev_rh = 39 /\ row.rh = 45
        /\ HasFlag(row, "Temp drift") /\ FlagValue(row, "Temp drift") = 5
        /\ HasFlag(row, "RH drift") /\ FlagValue(row, "RH drift") = 6

\* C13: a record carries "Mould risk" at level danger iff its relative
\* humidity is at least 70, whatever its temperature, outside snapshot, prior
\* record and range_status.
C13_MouldRiskFromSeventy ==
    \A row \in Rows(df_eval) :
        /\ HasFlag(row, "Mould risk") <=> row.rh >= 70
        /\ \A k \in DOMAIN row.flags :
              row.flags[k].label = "Mould risk"
                  => row.flags[k].level = "danger"

\* a log holding a reading of exactly 70 % at 19 C that is out of range and
\* flagged, and a reading of 69 % that is not flagged
C13_Witness ==
    /\ \E row \in Rows(df_eval) :
          /\ row.rh = 70 /\ row.temp_c = 19
          /\ row.range_status = "out"
          /\ HasFlag(row, "Mould risk")
    /\ \E row \in Rows(df_eval) :
          row.rh = 69 /\ ~HasFlag(row, "Mould risk")

\* the same records in every order of the list
Reorderings(log) ==
    {[k \in DOMAIN log |-> log[p[k]]] :
        p \in {q \in [DOMAIN log -> DOMAIN log] :
                  \A a, b \in DOMAIN log : q[a] = q[b] => a = b}}

PriorValues(row) == <<row.prev_temp, row.prev_rh, row.prev_time>>

\* the prior values of every record are those of the record before it
PriorIsPrecedingRecord(evaluated, log) ==
    \A i \in DOMAIN log :
        LET row == EvaluatedRow(evaluated, log, i)
            prior == log[PriorOf(log, i)]
        IN IF HasPrior(log, i)
           THEN PriorValues(row)
                    = <<prior.temp_c, prior.rh, prior.datetime>>
           ELSE PriorValues(row) = <<NaN, NaN, NaT>>

\* every order of the list gives every record the same prior values
SamePriorsInEveryOrder(evaluated, log) ==
    \A other \in Reorderings(log) :
        \A i \in DOMAIN log :
            PriorValues(EvaluatedRow(evaluate_records(other), log, i))
                = PriorValues(EvaluatedRow(evaluated, log, i))

DistinctTimesPerLocation(log) ==
    \A i, j \in DOMAIN log :
        (i # j /\ log[i].location = log[j].location)
            => log[i].datetime # log[j].datetime

\* C20 as stated: the prior temperature, humidity and timestamp of every
\* record are those of the immediately preceding record of its location in
\* ascending timestamp order, whatever the order of the input list and the
\* records of other locations; the first record of a location has none.
C20_PriorIndependentOfListOrder ==
    /\ PriorIsPrecedingRecord(df_eval, df[1])
    /\ SamePriorsInEveryOrder(df_eval, df[1])

\* C20 amended: the same, with records of one location and one timestamp
\* taken in the order of the input list; the prior values do not depend on
\* the order of the list when the timestamps within each location differ.
C20_PriorIsPrecedingRecord ==
    /\ PriorIsPrecedingRecord(df_eval, df[1])
    /\ DistinctTimesPerLocation(df[1])
          => SamePriorsInEveryOrder(df_eval, df[1])

\* a list that holds the later record of the Workroom before the earlier
\* one: the first record of the list has the second as its prior
C20_Witness ==
    /\ Len(df[1]) = 2
    /\ df[1][1].location = "Workroom" /\ df[1][2].location = "Workroom"
    /\ df[1][1].datetime = 24 /\ df[1][2].datetime = 0
    /\ LET row == EvaluatedRow(df_eval, df[1], 1) IN
          /\ row.prev_time = 0
          /\ row.prev_temp = df[1][2].temp_c
          /\ row.prev_rh = df[1][2].rh
          /\ row.delta_hours = 24
    /\ EvaluatedRow(df_eval, df[1], 2).prev_time = NaT

\* ------------------------------------------------ configuration predicate
\* every configuration whose four fields are empty, blank, a key, or a key
\* between blanks
ConfigTexts == {"", " ", "key", " key "}

AllConfigs ==
    {Config(bucket, object_key, access_key_id, secret_access_key) :
        bucket \in ConfigTexts, object_key \in ConfigTexts,
        access_key_id \in ConfigTexts, secret_access_key \in ConfigTexts}

ConfigInit ==
    /\ data_file = AbsentFile
    /\ spaces_object = AbsentFile
    /\ spaces_config =
           [s \in Sessions |-> normalize_spaces_config(Config("", "", "", ""))]
    /\ boto3 = TRUE
    /\ pc = [s \in Sessions |-> "start"]
    /\ df = [s \in Sessions |-> empty_frame]
    /\ next_id = 1
    /\ last = NoOperation
    /\ now = 0
    /\ cache = EmptyCache
    /\ outside = NoCall
    /\ df_eval = empty_frame

\* lines 543-552: spaces_enabled(config) called with a configuration
SpacesEnabled ==
    /\ \E config \in AllConfigs :
          last' = [NoOperation EXCEPT !.op = "spaces_enabled",
                                      !.config = config,
                                      !.enabled = spaces_enabled(config)]
    /\ UNCHANGED <<data_file, spaces_object, spaces_config, boto3, pc, df,
                   next_id, now, cache, outside, df_eval>>

ConfigNext == SpacesEnabled

SpecConfig == ConfigInit /\ [][ConfigNext]_vars

NonBlank(text) == text \notin {"", " "}

\* C15 as stated: spaces_enabled(config) is true iff bucket, object key,
\* access key and secret key are all non-empty after trimming; a
\* configuration whose object key is empty is not enabled.
C15_EnabledIffFourFieldsSet ==
    last.op = "spaces_enabled"
        => (last.enabled <=> /\ NonBlank(last.config.bucket)
                             /\ NonBlank(last.config.object_key)
                             /\ NonBlank(last.config.access_key_id)
                             /\ NonBlank(last.config.secret_access_key))

\* C15 amended: spaces_enabled(config) is true iff bucket, access key and
\* secret key are all non-empty after trimming; an empty or blank object key
\* stands for the default object key and does not disable the configuration.
C15_EnabledIffBucketAndKeysSet ==
    last.op = "spaces_enabled"
        => (last.enabled <=> /\ NonBlank(last.config.bucket)
                             /\ NonBlank(last.config.access_key_id)
                             /\ NonBlank(last.config.secret_access_key))

\* a configuration with bucket and both keys set between blanks and an empty
\* object key, found enabled
C15_Witness ==
    /\ last.op = "spaces_enabled"
    /\ last.config = Config(" key ", "", " key ", " key ")
    /\ last.enabled

\* ------------------------------------------------------ append and races
Ids(frame) == {frame[i].id : i \in DOMAIN frame}

\* the step is a "Record Reading" of some session
Recording == next_id' # next_id

\* Two sessions of one process: each runs the script on its own
\* st.session_state, and both read and write the same DATA_PATH and the
\* same object.  The process starts with or without a local log and a
\* remote log, and with boto3 installed.
RaceInit ==
    /\ data_file \in {AbsentFile, CsvFile(<<LocalRow1>>)}
    /\ spaces_object \in {AbsentFile, CsvFile(<<RemoteRow1>>)}
    /\ \E config \in ConfigInputs :
          spaces_config = [s \in Sessions |-> normalize_spaces_config(config)]
    /\ boto3 = TRUE
    /\ pc = [s \in Sessions |-> "start"]
    /\ df = [s \in Sessions |-> empty_frame]
    /\ next_id = 1
    /\ last = NoOperation
    /\ now = 0
    /\ cache = EmptyCache
    /\ outside = NoCall
    /\ df_eval = empty_frame

\* the script runs of the sessions interleave between load and save: no
\* lock is taken anywhere in lines 659-698
RaceNext ==
    \E s \in Sessions :
        \/ LoadData(s)
        \/ RecordReading(s)
        \/ EndRun(s)

SpecRace == RaceInit /\ [][RaceNext]_vars

\* the step is an append of a session that loaded before the append of
\* another session was saved: the last operation on the storage is that
\* save, and this session holds its loaded log since before it
AppendOverOtherAppend ==
    /\ Recording
    /\ last.op = "record"
    /\ last.session # last'.session
    /\ pc[last'.session] = "loaded"

\* C16: no lock protects the log.  When two sessions load, append and save,
\* and both loads happen before either save, the log left in the local cache
\* and (the put succeeding) in the remote object is the log the later
\* session saved, without the row the other session appended.
C16_LastSaveWins ==
    [][AppendOverOtherAppend =>
          LET lost == last.arg[Len(last.arg)]
              kept == last'.arg
          IN
          /\ kept = Append(df[last'.session], kept[Len(kept)])
          /\ LogOf(data_file') = kept
          /\ lost.id \notin Ids(LogOf(data_file'))
          /\ (last'.enabled /\ last'.put = "ok")
                => /\ LogOf(spaces_object') = kept
                   /\ lost.id \notin Ids(LogOf(spaces_object'))
    ]_vars

\* after two appends, both pushed with success: the cache and the remote
\* held the first row appended, and hold the second one without it
C16_Witness ==
    /\ last.op = "record" /\ last.enabled /\ last.put = "ok"
    /\ "new-1" \in Ids(LogOf(last.local_before))
    /\ "new-1" \in Ids(LogOf(last.remote_before))
    /\ "new-2" \in Ids(last.arg)
    /\ "new-1" \notin Ids(LogOf(data_file))
    /\ "new-1" \notin Ids(LogOf(spaces_object))
    /\ LogOf(data_file) = last.arg
    /\ LogOf(spaces_object) = last.arg

\* the cache and, with sync enabled and the put succeeding, the remote hold
\* the loaded log followed by one new row whose id no loaded row has
AppendedToLoadedLog ==
    LET s == last'.session
        loaded == df[s]
        saved == LogOf(data_file')
        new_row == saved[Len(saved)]
    IN
    /\ last'.op = "record"
    /\ Len(saved) = Len(loaded) + 1
    /\ SubSeq(saved, 1, Len(loaded)) = loaded
    /\ new_row.id \notin Ids(loaded)
    /\ (last'.enabled /\ boto3 /\ last'.put = "ok")
          => LogOf(spaces_object') = saved
    /\ ~last'.enabled => spaces_object' = spaces_object

NewRow == LET saved == LogOf(data_file') IN saved[Len(saved)]

\* C17 as stated: an append in one session is load the whole log, append,
\* save the whole log.  With every storage operation succeeding, the local
\* cache and, with sync enabled, the remote object hold exactly the loaded
\* log followed by the new row afterwards; every row that was there is
\* unchanged; the id of the new row differs from every id of the loaded
\* log; and the outside fields of the new row are null iff the outside
\* provider returned nothing.
C17_OutsideFieldsNullIffNoSnapshot ==
    [][Recording =>
          /\ AppendedToLoadedLog
          /\ (isna(NewRow.outside_temp_c) /\ isna(NewRow.outside_rh))
                <=> ~outside'.result.some
    ]_vars

\* C17 amended: the same, with the outside fields of the new row null when
\* the outside provider returned nothing and otherwise equal to the fields
\* of the returned snapshot, each of which is null when the provider's
\* answer did not hold it.
C17_AppendRewritesWholeLog ==
    [][Recording =>
          /\ AppendedToLoadedLog
          /\ ~outside'.result.some
                => isna(NewRow.outside_temp_c) /\ isna(NewRow.outside_rh)
          /\ outside'.result.some
                => /\ NewRow.outside_temp_c = outside'.result.temp_c
                   /\ NewRow.outside_rh = outside'.result.rh
    ]_vars

\* an append with sync enabled and the put succeeding, onto a loaded log of
\* two rows, with a snapshot from the outside provider: the cache and the
\* remote hold the two rows and the new one, which carries the snapshot
C17_Witness ==
    /\ last.op = "record" /\ last.enabled /\ last.put = "ok"
    /\ Len(last.arg) = 3
    /\ SubSeq(last.arg, 1, 2) = LogOf(last.local_before)
    /\ LogOf(data_file) = last.arg
    /\ LogOf(spaces_object) = last.arg
    /\ outside.called /\ outside.result.some
    /\ last.arg[3].outside_temp_c = outside.result.temp_c
    /\ last.arg[3].outside_rh = outside.result.rh
    /\ last.arg[3].id \notin Ids(LogOf(last.local_before))

\* ------------------------------------------------- remote and cache kept
HoldsRows(file) == file.kind = "csv" /\ file.rows # << >>

\* C18: a load never replaces a remote log that has rows by other content:
\* load_data issues a put only when the remote holds no rows, also when its
\* get fails for a moment or the object does not parse and the put succeeds.
C18_LoadNeverReplacesNonEmptyRemote ==
    (IsLoad /\ HoldsRows(last.remote_before))
        => /\ ~Issued(last.calls, "put")
           /\ spaces_object = last.remote_before

\* every row of rows is a row of frame
Contains(frame, rows) ==
    \A i \in DOMAIN rows : \E k \in DOMAIN frame : frame[k] = rows[i]

\* the step is a load, and the last operation on the storage before it was
\* a save whose put failed
LoadAfterFailedPush ==
    /\ IsSave /\ last.put = "transport_error"
    /\ last'.op = "load"

\* the load reaches the remote, which holds a log with rows
RemoteAnswersWithRows ==
    /\ last'.enabled /\ last'.get = "ok"
    /\ HoldsRows(spaces_object)

\* C19 as stated: after save_data(L) wrote L to the local cache and its push
\* failed, a later load with sync enabled and the remote reachable again,
\* still holding an older log with rows, returns a log that contains every
\* row of L and leaves those rows in the local cache.
C19_CacheNeverRegresses ==
    [][(LoadAfterFailedPush /\ RemoteAnswersWithRows) =>
          /\ Contains(last'.ret, last.arg)
          /\ Contains(LogOf(data_file'), last.arg)
    ]_vars

\* C19 amended: after save_data(L) wrote L and its push failed, the local
\* cache holds L until the next load.  A load that reaches a remote still
\* holding an older log with rows returns that remote log and overwrites
\* the cache with it, so the rows of L the remote lacks are lost; any other
\* load that returns gives L and leaves L in the cache.
C19_CacheRegressesToReachableRemote ==
    [][LoadAfterFailedPush =>
          /\ LogOf(data_file) = last.arg
          /\ RemoteAnswersWithRows
                => /\ last'.ret = LogOf(spaces_object)
                   /\ LogOf(data_file') = LogOf(spaces_object)
                   /\ spaces_object' = spaces_object
          /\ (~RemoteAnswersWithRows /\ ~last'.raised)
                => /\ last'.ret = last.arg
                   /\ LogOf(data_file') = last.arg
    ]_vars

\* a load returned the row the remote held and left it in the cache, which
\* before held a log with an appended row that is now in neither
C19_Witness ==
    /\ IsLoad /\ last.enabled /\ last.get = "ok"
    /\ HoldsRows(last.remote_before)
    /\ "new-1" \in Ids(LogOf(last.local_before))
    /\ "new-1" \notin Ids(last.ret)
    /\ last.ret = LogOf(last.remote_before)
    /\ LogOf(data_file) = last.ret
    /\ spaces_object = last.remote_before

\* --------------------------------------------- outside deltas and severity
FlagLevel(row, label) ==
    LET i == CHOOSE k \in DOMAIN row.flags : row.flags[k].label = label
    IN row.flags[i].level

\* C21: a record carries "Temp delta vs outside" at level warn iff its
\* outside temperature is present and differs from temp_c by more than 6,
\* and "RH delta vs outside" at level warn iff its outside humidity is
\* present and differs from rh by more than 15; the flag prints the signed
\* difference; a record without a snapshot carries neither flag.
C21_OutsideDeltaFlags ==
    \A row \in Rows(df_eval) :
        LET has_temp == row.outside_temp_c # NaN
            has_rh == row.outside_rh # NaN
        IN
        /\ HasFlag(row, "Temp delta vs outside")
              <=> (has_temp /\ Distance(row.temp_c, row.outside_temp_c) > 6)
        /\ HasFlag(row, "RH delta vs outside")
              <=> (has_rh /\ Distance(row.rh, row.outside_rh) > 15)
        /\ HasFlag(row, "Temp delta vs outside")
              => /\ FlagLevel(row, "Temp delta vs outside") = "warn"
                 /\ FlagValue(row, "Temp delta vs outside")
                        = row.temp_c - row.outside_temp_c
        /\ HasFlag(row, "RH delta vs outside")
              => /\ FlagLevel(row, "RH delta vs outside") = "warn"
                 /\ FlagValue(row, "RH delta vs outside")
                        = row.rh - row.outside_rh

\* a log with a reading 7 C below and 16 % below the outside air, flagged
\* with -7 and -16, and a reading 6 C and 15 % above it, not flagged
C21_Witness ==
    /\ \E row \in Rows(df_eval) :
          /\ row.temp_c = 25 /\ row.outside_temp_c = 32
          /\ row.rh = 55 /\ row.outside_rh = 71
          /\ HasFlag(row, "Temp delta vs outside")
          /\ FlagValue(row, "Temp delta vs outside") = -7
          /\ HasFlag(row, "RH delta vs outside")
          /\ FlagValue(row, "RH delta vs outside") = -16
    /\ \E row \in Rows(df_eval) :
          /\ row.temp_c = 14 /\ row.outside_temp_c = 8
          /\ row.rh = 40 /\ row.outside_rh = 25
          /\ ~HasFlag(row, "Temp delta vs outside")
          /\ ~HasFlag(row, "RH delta vs outside")

HasLevel(row, level) == \E k \in DOMAIN row.flags : row.flags[k].level = level

\* every record of every log of two of the measurements, evaluated
EvaluatedInputs ==
    UNION {Rows(evaluate_records(<<[a EXCEPT !.id = "m-1"],
                                   [b EXCEPT !.id = "m-2"]>>)) :
              a \in MeasurementInputs, b \in MeasurementInputs}

\* C22 as stated: range_status does not depend on the levels of the flags:
\* some record evaluated core carries a warn flag, and some record evaluated
\* core carries a danger flag.
C22_CoreCarriesWarnAndDanger ==
    LET records == EvaluatedInputs \cup Rows(df_eval) IN
    /\ \E row \in records :
          row.range_status = "core" /\ HasLevel(row, "warn")
    /\ \E row \in records :
          row.range_status = "core" /\ HasLevel(row, "danger")

\* C22 amended: some record evaluated core carries a warn flag (a drift or
\* an outside delta); a record that carries a danger flag is evaluated out,
\* so no record evaluated core carries one.
C22_DangerFlagMeansOut ==
    /\ \A row \in Rows(df_eval) :
          HasLevel(row, "danger") => row.range_status = "out"
    /\ \A row \in Rows(df_eval) :
          row.range_status = "core" =>
              \A k \in DOMAIN row.flags :
                  /\ row.flags[k].level = "warn"
                  /\ row.flags[k].label \in
                         {"Temp delta vs outside", "RH delta vs outside",
                          "Temp drift", "RH drift"}

\* a log whose two records are core, one with both outside-delta flags and
\* one with both drift flags
C22_Witness ==
    /\ \E row \in Rows(df_eval) :
          /\ row.range_status = "core"
          /\ HasFlag(row, "Temp drift") /\ HasFlag(row, "RH drift")
    /\ \E row \in Rows(df_eval) :
          /\ row.range_status = "core"
          /\ HasFlag(row, "Temp delta vs outside")
          /\ HasFlag(row, "RH delta vs outside")

\* ------------------------------------------------- failures in the cache
\* the entry of the called triple held None when the call came, not yet 900
\* seconds old
CalledOverCachedNone ==
    LET entry == outside.cache_before[outside.key] IN
    /\ outside.called
    /\ entry.stored /\ ~entry.value.some
    /\ outside.at - entry.at < CACHE_TTL

\* C23: only successful results are cached.  After a call that returned None
\* because the fetch failed, the next call with the same triple goes to the
\* network, also within the 15 minutes, instead of returning a cached None.
C23_FailuresAreNotCached ==
    CalledOverCachedNone => Networked

\* ------------------------------------------------ remote failures on load
\* the get of the load failed at some step, and not with not-found: the
\* request failed, no response came, the body could not be read, or the
\* object did not parse
RemoteFetchFailed ==
    \/ last.get \in {"client_error", "transport_error"}
    \/ last.get = "read_error" /\ last.remote_before.kind # "absent"
    \/ last.get = "ok" /\ last.remote_before.kind = "corrupt"

\* C25: no remote failure makes a load fail.  For a failure at any step of
\* the remote fetch other than not-found, load_data shows at most a warning,
\* takes the remote as unavailable and returns the local log without raising.
C25_RemoteFailureNeverRaises ==
    (IsLoad /\ RemoteFetchFailed)
        => /\ ~last.raised
           /\ last.ret = LogOf(last.local_before)

\* ---------------------------------------------------------- convergence
\* a load with sync enabled whose every operation succeeded: the local file
\* was absent or read, the get was answered with the object or with
\* not-found, the object parsed, and the put, when one was issued, succeeded
LoadSucceededThroughout ==
    /\ IsLoad /\ last.enabled /\ ~last.raised
    /\ last.local_before.kind # "corrupt"
    /\ Issued(last.calls, "get") /\ last.get = "ok"
    /\ last.remote_before.kind # "corrupt"
    /\ last.put \in {"none", "ok"}

\* a save with sync enabled whose push succeeded
SavePushed == IsSave /\ last.enabled /\ last.put = "ok"

\* C26: with sync enabled, after a load in which every local and remote
\* operation succeeded and after a save whose push succeeded, the rows of
\* the local cache equal the rows of the remote object, a missing file and a
\* missing object counting as the empty log, and the log returned or saved
\* equals both.
C26_TiersConverge ==
    /\ LoadSucceededThroughout
          => /\ LogOf(data_file) = LogOf(spaces_object)
             /\ last.ret = LogOf(data_file)
    /\ SavePushed
          => /\ LogOf(data_file) = LogOf(spaces_object)
             /\ last.arg = LogOf(data_file)

\* a load that found two rows in the cache and no object, pushed them and
\* returned them; the cache and the object hold the two rows
C26_Witness ==
    /\ LoadSucceededThroughout
    /\ last.remote_before.kind = "absent"
    /\ Len(LogOf(last.local_before)) = 2
    /\ last.put = "ok"
    /\ last.ret = LogOf(last.local_before)
    /\ LogOf(spaces_object) = last.ret
    /\ LogOf(data_file) = last.ret

====
